---- MODULE Spec2Model ----
(***************************************************************************)
(* The casbin policy adapter for the GoFrame ORM (src/adapter.go, the      *)
(* revision of lines 1012-1603): one table of rule rows behind a database  *)
(* handle, an in-memory policy model the rows are loaded into, and the     *)
(* adapter's operations as actions on both.                                *)
(*                                                                         *)
(* A row is [PType, V] with V the six fields v0..v5.  The table is the     *)
(* sequence of its rows in ascending id order: an insert appends (the id   *)
(* is AUTO_INCREMENT), a delete keeps the order of the rows that stay.     *)
(* A statement handed to the database either executes or fails with a      *)
(* storage error; which, is an input of the action.                        *)
(***************************************************************************)
EXTENDS Integers, Sequences, FiniteSets, TLC

VARIABLES
    table,       \* the rows of the policy table, in id order
    model,       \* the engine's in-memory model: rule-kind -> list of tuples
    isFiltered,  \* Adapter.isFiltered
    call,        \* the handler that is between two of its statements, or Idle
    last         \* the record of the call that returned last; NoCall once
                 \* the caller has begun its next call

vars == <<table, model, isFiltered, call, last>>

----------------------------------------------------------------------------
(* Program constants *)

NumFields == 6

(* Bounds of the model *)

\* The rows of one insert batch: 1000 in the program, scaled to the lists of
\* the model so that a list is inserted in more than one batch.
batchSize == 1
MaxRows == 2
MaxModel == 2
MaxBatch == 2

----------------------------------------------------------------------------
(* Values *)

PTypes == {"p", "g"}
Str == {"", "a", "b"}

SeqsUpTo(S, n) == UNION {[1..k -> S] : k \in 0..n}

\* The tuples the calls of the table specifications are made with: nothing
\* supplied, a prefix, a full pair, an empty field before a non-empty one.
Tuples == {<<>>, <<"a">>, <<"a", "b">>, <<"", "b">>}

\* The tuples rows are inserted from, the tuples of the batch operations, and
\* the batches themselves.
AddTuples == {<<"a">>, <<"a", "b">>, <<"", "b">>}
BatchTuples == {<<"a">>, <<"a", "b">>}
RuleLists == SeqsUpTo(BatchTuples, MaxBatch)
\* The lists of old rules UpdatePolicies is called with.
OldRuleLists == RuleLists \cup {<<<<"", "b">>>>}
\* The lists RemovePolicies is called with.
RemoveLists == SeqsUpTo({<<"a">>, <<"a", "b">>, <<"", "b">>}, MaxBatch)

\* The positional filters of the filtered operations.
FieldIndexes == {-1, 0, 1, 5}
FieldValueLists == {<<>>, <<"a">>, <<"b">>, <<"", "b">>, <<"a", "b">>}

\* Every tuple of 0 to NumFields fields.
AllTuples == SeqsUpTo({"", "a"}, NumFields)

EmptyModel == [k \in PTypes |-> <<>>]

\* A filter: per field, the values it accepts; none: the field is free.  type
\* is the dynamic type of the value the caller hands over as the filter.
NoFilter == [type |-> "Filter", PType |-> {}, V |-> [i \in 1..NumFields |-> {}]]
Filters ==
    {[type |-> "Filter", PType |-> P, V |-> <<v0, v1, {}, {}, {}, v5>>] :
        P \in {{}, {"p"}, {"p", "g"}},
        v0 \in {{}, {"a"}, {"", "a"}},
        v1 \in {{}, {"b"}, {""}},
        v5 \in {{}, {"a"}}}

\* Values that are not of the type Filter: a pointer to a Filter, a nil.
OtherFilters ==
    {[NoFilter EXCEPT !.type = "nil"],
     [NoFilter EXCEPT !.type = "*Filter"],
     [NoFilter EXCEPT !.type = "*Filter", !.PType = {"p"}],
     [NoFilter EXCEPT !.type = "*Filter", !.V[1] = {"a"}]}

\* The models SavePolicy is called with.
SaveModels ==
    {m \in [PTypes -> SeqsUpTo(AddTuples, MaxRows)] :
        Len(m["p"]) + Len(m["g"]) <= MaxRows}

RECURSIVE SumLen(_, _)
SumLen(m, ks) ==
    IF ks = {} THEN 0
    ELSE LET k == CHOOSE x \in ks : TRUE IN Len(m[k]) + SumLen(m, ks \ {k})

ModelSize(m) == SumLen(m, DOMAIN m)

\* The permutations of a sequence: the orders a scan without ORDER BY may
\* return its rows in.
Perms(s) ==
    {[i \in 1..Len(s) |-> s[f[i]]] :
        f \in {g \in [1..Len(s) -> 1..Len(s)] :
                 \A i, j \in 1..Len(s) : g[i] = g[j] => i = j}}

\* How many times x occurs in s.
Count(s, x) == Cardinality({i \in 1..Len(s) : s[i] = x})

SameBag(s, t) ==
    /\ Len(s) = Len(t)
    /\ \A i \in 1..Len(s) : Count(s, s[i]) = Count(t, s[i])

----------------------------------------------------------------------------
(* Row <-> tuple *)

\* The last six elements of a longer tuple instead of the first six.
buildRuleTail(pType, data) ==
    LET skip == IF Len(data) > NumFields THEN Len(data) - NumFields ELSE 0 IN
    [PType |-> pType,
     V |-> [i \in 1..NumFields |->
              IF Len(data) > i - 1 THEN data[i + skip] ELSE ""]]

buildRule(pType, data) ==
    [PType |-> pType,
     V |-> [i \in 1..NumFields |-> IF Len(data) > i - 1 THEN data[i] ELSE ""]]

NonEmpty(x) == x # ""

toSlice(c) == SelectSeq(c.V, NonEmpty)

loadPolicyRule(rule, m) ==
    LET ruleText == toSlice(rule) IN
    IF Len(ruleText) = 0 THEN m
    ELSE [m EXCEPT ![rule.PType] = Append(@, ruleText)]

RECURSIVE LoadRules(_, _)
LoadRules(rules, m) ==
    IF rules = <<>> THEN m
    ELSE LoadRules(Tail(rules), loadPolicyRule(Head(rules), m))

----------------------------------------------------------------------------
(* Queries.  A query is the rule-kind it selects and a set of conditions   *)
(* <<n, value>>, "v<n> = value".                                           *)

\* A condition on every field of the rule, the empty ones too.
toQueryExact(c) ==
    [PType |-> c.PType, Conds |-> {<<i - 1, c.V[i]>> : i \in 1..NumFields}]

toQuery(c) ==
    [PType |-> c.PType,
     Conds |-> {<<i - 1, c.V[i]>> : i \in {j \in 1..NumFields : c.V[j] # ""}}]

\* The table has the columns v0..v5; a condition on another column is an error
\* of the statement.
ValidQuery(q) == \A c \in q.Conds : c[1] \in 0..(NumFields - 1)

\* The conditions on the fields without the one on p_type.
RowMatchesAnyKind(q, row) ==
    \A c \in q.Conds : row.V[c[1] + 1] = c[2]

RowMatches(q, row) ==
    /\ row.PType = q.PType
    /\ \A c \in q.Conds : row.V[c[1] + 1] = c[2]

\* A delete that takes the rule-kind for the whole condition.
DeleteKind(t, q) == SelectSeq(t, LAMBDA r : r.PType # q.PType)

Select(t, q) == SelectSeq(t, LAMBDA r : RowMatches(q, r))
Delete(t, q) == SelectSeq(t, LAMBDA r : ~RowMatches(q, r))
Insert(t, rows) == t \o rows

\* The loop stops one batch early: i + batchSize < len(rules).
RECURSIVE BatchesShort(_)
BatchesShort(rules) ==
    IF Len(rules) <= batchSize THEN <<>>
    ELSE <<SubSeq(rules, 1, batchSize)>>
           \o BatchesShort(SubSeq(rules, batchSize + 1, Len(rules)))

RECURSIVE Batches(_)
Batches(rules) ==
    IF Len(rules) = 0 THEN <<>>
    ELSE LET end == IF batchSize > Len(rules) THEN Len(rules) ELSE batchSize IN
         <<SubSeq(rules, 1, end)>> \o Batches(SubSeq(rules, end + 1, Len(rules)))

\* The table a transaction works on after the first n of the batches are inserted.
RECURSIVE InsertBatches(_, _, _)
InsertBatches(t, batches, n) ==
    IF n = 0 THEN t
    ELSE Insert(InsertBatches(t, batches, n - 1), batches[n])

\* Statements run without a transaction: what was done before a failure stays.
TransactionNoRollback(pre, work, failed) == work

\* gdb's Transaction(ctx, f): commit when f returns nil, roll back otherwise.
Transaction(pre, work, failed) == IF failed THEN pre ELSE work

----------------------------------------------------------------------------
(* Call records *)

\* op: the operation; pType, rules, newRules, fieldIndex, fieldValues, arg: its
\* arguments; pre: the table when it was called; txPre: the table when its
\* transaction began; filter, modelPre: the filter and the model it was handed; scanned, deleted: the
\* rows its select returned and its delete removed; failed: the statement
\* that failed (0: none); stmts: the statements it sent to the database;
\* err, res, resNil: what it returned.  cfg, adp: the arguments of NewAdapter
\* and the fields of the adapter it returned.
NoCfg == [ctx |-> "nil", dbGroupName |-> "", tableName |-> "", db |-> "nil"]

NoCall == [op |-> "none", pType |-> "", rules |-> <<>>, newRules |-> <<>>,
           cfg |-> NoCfg, adp |-> NoCfg, stmts |-> 0, rollback |-> "",
           nilModel |-> FALSE,
           fieldIndex |-> 0, fieldValues |-> <<>>, arg |-> EmptyModel,
           filter |-> NoFilter, pre |-> <<>>, txPre |-> <<>>, modelPre |-> EmptyModel,
           scanned |-> <<>>, deleted |-> <<>>, failed |-> 0,
           err |-> "", res |-> <<>>, resNil |-> TRUE]

Idle == [NoCall EXCEPT !.op = "idle"]

Init ==
    /\ table = <<>>
    /\ model = EmptyModel
    /\ isFiltered = FALSE
    /\ call = Idle
    /\ last = NoCall

----------------------------------------------------------------------------
(* Construction *)

defaultTableName == "casbin_rule"

\* The arguments NewAdapter is called with.
Cfgs ==
    [ctx : {"nil", "ctx"}, dbGroupName : {"", "default"},
     tableName : {"", "rule"}, db : {"nil", "db"}]

\* No adapter is constructed yet.
Unbuilt == [NoCall EXCEPT !.op = "unbuilt"]

\* NewAdapter that goes on to create the table whatever it is handed.
NewAdapterUnchecked(cfg, found, fail) ==
    /\ call = Unbuilt
    /\ call' = IF fail THEN call ELSE Idle
    /\ last' = [NoCall EXCEPT
                  !.op = "NewAdapter", !.cfg = cfg, !.pre = table, !.stmts = 1,
                  !.failed = IF fail THEN 1 ELSE 0,
                  !.err = IF fail THEN "failed to open adapter" ELSE "",
                  !.resNil = fail,
                  !.adp = IF fail THEN NoCfg ELSE cfg]
    /\ UNCHANGED <<table, model, isFiltered>>

\* found: g.DB knows the connection group; fail: the create statement fails.
NewAdapter(cfg, found, fail) ==
    LET tableName == IF cfg.tableName = "" THEN defaultTableName
                     ELSE cfg.tableName
        noGroup == cfg.db = "nil" /\ cfg.dbGroupName = ""
        noDB == cfg.db = "nil" /\ ~found
        db == IF cfg.db = "nil" THEN cfg.dbGroupName ELSE cfg.db
        create == cfg.ctx # "nil" /\ ~noGroup /\ ~noDB
        ok == create /\ ~fail
    IN
    /\ call = Unbuilt
    /\ call' = IF ok THEN Idle ELSE call
    /\ last' = [NoCall EXCEPT
                  !.op = "NewAdapter", !.cfg = cfg, !.pre = table,
                  !.stmts = IF create THEN 1 ELSE 0,
                  !.failed = IF create /\ fail THEN 1 ELSE 0,
                  !.err = IF cfg.ctx = "nil" THEN "context cannot be nil"
                          ELSE IF ok THEN ""
                          ELSE "failed to open adapter",
                  !.resNil = ~ok,
                  !.adp = IF ok THEN [ctx |-> cfg.ctx,
                                      dbGroupName |-> cfg.dbGroupName,
                                      tableName |-> tableName, db |-> db]
                          ELSE NoCfg]
    /\ UNCHANGED <<table, model, isFiltered>>

----------------------------------------------------------------------------
(* Operations *)

AddPolicy(pType, rule, fail) ==
    /\ Len(table) < MaxRows
    /\ table' = IF fail THEN table ELSE Insert(table, <<buildRule(pType, rule)>>)
    /\ last' = [NoCall EXCEPT !.op = "AddPolicy", !.pType = pType,
                              !.rules = <<rule>>, !.pre = table,
                              !.failed = IF fail THEN 1 ELSE 0,
                              !.err = IF fail THEN "failed to add policy" ELSE ""]
    /\ UNCHANGED <<model, isFiltered, call>>

\* The transaction inserts the batches; batch f fails (0: none).
AddPolicies(pType, rules, f) ==
    LET dbRules == [i \in 1..Len(rules) |-> buildRule(pType, rules[i])]
        batches == Batches(dbRules)
        done == IF f = 0 THEN Len(batches) ELSE f - 1
    IN
    /\ f \in 0..Len(batches)
    /\ table' = IF Len(rules) = 0 THEN table
                ELSE Transaction(table, InsertBatches(table, batches, done), f # 0)
    /\ Len(table') <= MaxRows
    /\ last' = [NoCall EXCEPT !.op = "AddPolicies", !.pType = pType,
                              !.rules = rules, !.pre = table, !.txPre = table,
                              !.failed = f,
                              !.err = IF f = 0 THEN ""
                                      ELSE "failed to insert rules batch"]
    /\ UNCHANGED <<model, isFiltered, call>>

LoadPolicy(fail) ==
    /\ ModelSize(model) + Len(table) <= MaxModel
    /\ model' = IF fail THEN model ELSE LoadRules(table, model)
    /\ last' = [NoCall EXCEPT !.op = "LoadPolicy", !.pre = table,
                              !.modelPre = model, !.failed = IF fail THEN 1 ELSE 0,
                              !.err = IF fail THEN "failed to scan policy rules" ELSE ""]
    /\ UNCHANGED <<table, isFiltered, call>>

\* The rows a filter selects: every field whose list of values is not empty
\* must hold one of them.
FilteredRows(t, filterRule) ==
    SelectSeq(t, LAMBDA r :
        /\ Cardinality(filterRule.PType) > 0 => r.PType \in filterRule.PType
        /\ \A i \in 1..NumFields :
              Cardinality(filterRule.V[i]) > 0 => r.V[i] \in filterRule.V[i])

\* LoadFilteredPolicy that takes any value for a filter.
LoadFilteredPolicyAnyType(filter, fail) ==
    /\ ModelSize(model) + Len(table) <= MaxModel
    /\ IF fail
       THEN UNCHANGED <<model, isFiltered>>
       ELSE /\ \E rules \in Perms(FilteredRows(table, filter)) :
                 model' = LoadRules(rules, model)
            /\ isFiltered' = TRUE
    /\ last' = [NoCall EXCEPT
                  !.op = "LoadFilteredPolicy", !.filter = filter, !.pre = table,
                  !.modelPre = model, !.failed = IF fail THEN 1 ELSE 0,
                  !.err = IF fail THEN "failed to scan filtered policy rules"
                          ELSE ""]
    /\ UNCHANGED <<table, call>>

LoadFilteredPolicy(filter, fail) ==
    LET ok == filter.type = "Filter" IN
    /\ ModelSize(model) + Len(table) <= MaxModel
    /\ IF ~ok \/ fail
       THEN UNCHANGED <<model, isFiltered>>
       ELSE /\ \E rules \in Perms(FilteredRows(table, filter)) :
                 model' = LoadRules(rules, model)
            /\ isFiltered' = TRUE
    /\ last' = [NoCall EXCEPT
                  !.op = "LoadFilteredPolicy", !.filter = filter, !.pre = table,
                  !.modelPre = model,
                  !.failed = IF ok /\ fail THEN 1 ELSE 0,
                  !.err = IF ~ok THEN "invalid filter type"
                          ELSE IF fail THEN "failed to scan filtered policy rules"
                          ELSE ""]
    /\ UNCHANGED <<table, call>>

IsFiltered == isFiltered

\* The engine's ClearPolicy (unnamed/part_001, initPolicy).
ClearPolicy ==
    /\ model # EmptyModel
    /\ model' = EmptyModel
    /\ UNCHANGED <<table, isFiltered, call, last>>

\* A truncate that removes nothing.
truncateTableNoop(t) == t

truncateTable(t) == <<>>

\* The rows SavePolicy builds: those of section "p", then those of section "g".
RulesOfKind(m, k) == [i \in 1..Len(m[k]) |-> buildRule(k, m[k][i])]
RulesOf(m) == RulesOfKind(m, "p") \o RulesOfKind(m, "g")

\* SavePolicy to the end of its truncate statement.
SaveTruncate(m, fail) ==
    /\ call = Idle
    /\ IF fail
       THEN /\ last' = [NoCall EXCEPT !.op = "SavePolicy", !.arg = m,
                                      !.pre = table, !.failed = 1,
                                      !.err = "failed to truncate table"]
            /\ UNCHANGED <<table, call>>
       ELSE /\ table' = truncateTable(table)
            /\ IF Len(RulesOf(m)) = 0
               THEN /\ last' = [NoCall EXCEPT !.op = "SavePolicy", !.arg = m,
                                              !.pre = table, !.txPre = table']
                    /\ UNCHANGED call
               ELSE /\ call' = [Idle EXCEPT !.op = "SavePolicy", !.arg = m,
                                            !.pre = table]
                    /\ last' = NoCall
    /\ UNCHANGED <<model, isFiltered>>

\* SavePolicy's transaction: the insert batches; batch f fails (0: none).
SaveInsert(f) ==
    LET batches == Batches(RulesOf(call.arg))
        done == IF f = 0 THEN Len(batches) ELSE f - 1
    IN
    /\ call.op = "SavePolicy"
    /\ f \in 0..Len(batches)
    /\ table' = Transaction(table, InsertBatches(table, batches, done), f # 0)
    /\ Len(table') <= MaxRows
    /\ last' = [NoCall EXCEPT !.op = "SavePolicy", !.arg = call.arg,
                              !.pre = call.pre, !.txPre = table,
                              !.failed = IF f = 0 THEN 0 ELSE f + 1,
                              !.err = IF f = 0 THEN ""
                                      ELSE "failed to insert rules batch"]
    /\ call' = Idle
    /\ UNCHANGED <<model, isFiltered>>

RemovePolicy(pType, rule, fail) ==
    LET dbRule == buildRule(pType, rule)
        query == toQuery(dbRule)
    IN
    /\ table' = IF fail THEN table ELSE Delete(table, query)
    /\ last' = [NoCall EXCEPT !.op = "RemovePolicy", !.pType = pType,
                              !.rules = <<rule>>, !.pre = table,
                              !.failed = IF fail THEN 1 ELSE 0,
                              !.err = IF fail THEN "failed to delete policy" ELSE ""]
    /\ UNCHANGED <<model, isFiltered, call>>

\* The query of the filtered operations: the rule-kind, and v<fieldIndex+j> =
\* fieldValues[j] for every non-empty value.
FilterQuery(pType, fieldIndex, fieldValues) ==
    [PType |-> pType,
     Conds |-> {<<fieldIndex + j - 1, fieldValues[j]>> :
                  j \in {i \in 1..Len(fieldValues) : fieldValues[i] # ""}}]

\* The table RemovePolicies' transaction works on after the deletes of the
\* first n rules.
RECURSIVE RemoveSteps(_, _, _, _)
RemoveSteps(t, pType, rules, n) ==
    IF n = 0 THEN t
    ELSE Delete(RemoveSteps(t, pType, rules, n - 1),
                toQuery(buildRule(pType, rules[n])))

\* RemovePolicies that goes no further than its first rule.
RemovePoliciesFirst(pType, rules, f) ==
    /\ f = 0
    /\ table' = RemoveSteps(table, pType, rules, IF Len(rules) = 0 THEN 0 ELSE 1)
    /\ last' = [NoCall EXCEPT !.op = "RemovePolicies", !.pType = pType,
                              !.rules = rules, !.pre = table, !.txPre = table]
    /\ UNCHANGED <<model, isFiltered, call>>

\* The delete of rule f fails (0: none).
RemovePolicies(pType, rules, f) ==
    LET done == IF f = 0 THEN Len(rules) ELSE f - 1 IN
    /\ f \in 0..Len(rules)
    /\ table' = IF Len(rules) = 0 THEN table
                ELSE Transaction(table, RemoveSteps(table, pType, rules, done), f # 0)
    /\ last' = [NoCall EXCEPT !.op = "RemovePolicies", !.pType = pType,
                              !.rules = rules, !.pre = table, !.txPre = table,
                              !.failed = f,
                              !.err = IF f = 0 THEN "" ELSE "failed to delete rule"]
    /\ UNCHANGED <<model, isFiltered, call>>

\* RemoveFilteredPolicy with its window at v0 whatever fieldIndex is.
RemoveFilteredPolicyAtZero(pType, fieldIndex, fieldValues, fail) ==
    LET query == FilterQuery(pType, fieldIndex, fieldValues)
        invalid == fieldIndex < 0 \/ fieldIndex > 5
        failed == fail \/ ~ValidQuery(query)
    IN
    /\ table' = IF invalid \/ failed THEN table ELSE Delete(table, FilterQuery(pType, 0, fieldValues))
    /\ last' = [NoCall EXCEPT
                  !.op = "RemoveFilteredPolicy", !.pType = pType,
                  !.fieldIndex = fieldIndex, !.fieldValues = fieldValues,
                  !.pre = table,
                  !.failed = IF invalid THEN 0 ELSE IF failed THEN 1 ELSE 0,
                  !.err = IF invalid THEN "invalid field index"
                          ELSE IF failed THEN "failed to delete filtered policies"
                          ELSE ""]
    /\ UNCHANGED <<model, isFiltered, call>>

RemoveFilteredPolicy(pType, fieldIndex, fieldValues, fail) ==
    LET query == FilterQuery(pType, fieldIndex, fieldValues)
        invalid == fieldIndex < 0 \/ fieldIndex > 5
        failed == fail \/ ~ValidQuery(query)
    IN
    /\ table' = IF invalid \/ failed THEN table ELSE Delete(table, query)
    /\ last' = [NoCall EXCEPT
                  !.op = "RemoveFilteredPolicy", !.pType = pType,
                  !.fieldIndex = fieldIndex, !.fieldValues = fieldValues,
                  !.pre = table,
                  !.failed = IF invalid THEN 0 ELSE IF failed THEN 1 ELSE 0,
                  !.err = IF invalid THEN "invalid field index"
                          ELSE IF failed THEN "failed to delete filtered policies"
                          ELSE ""]
    /\ UNCHANGED <<model, isFiltered, call>>

\* Statement f of the transaction fails (0: none): 1 is the delete of the rows
\* of oldRule, 2 the insert of newRule.
UpdatePolicy(pType, oldRule, newRule, f) ==
    LET query == toQuery(buildRule(pType, oldRule))
        newData == buildRule(pType, newRule)
        work == IF f = 1 THEN table
                ELSE IF f = 2 THEN Delete(table, query)
                ELSE Insert(Delete(table, query), <<newData>>)
    IN
    /\ f \in 0..2
    /\ table' = Transaction(table, work, f # 0)
    /\ Len(table') <= MaxRows
    /\ last' = [NoCall EXCEPT
                  !.op = "UpdatePolicy", !.pType = pType, !.rules = <<oldRule>>,
                  !.newRules = <<newRule>>, !.pre = table, !.txPre = table,
                  !.failed = f,
                  !.err = IF f = 0 THEN ""
                          ELSE IF f = 1 THEN "failed to delete old rule"
                          ELSE "failed to insert new rule"]
    /\ UNCHANGED <<model, isFiltered, call>>

\* The table UpdatePolicies' transaction works on after the first n statements
\* of its loop: statement 2i-1 deletes the rows of oldRules[i], statement 2i
\* inserts newRules[i].
RECURSIVE UpdateSteps(_, _, _, _, _)
UpdateSteps(t, pType, oldRules, newRules, n) ==
    IF n = 0 THEN t
    ELSE LET prev == UpdateSteps(t, pType, oldRules, newRules, n - 1)
             i == (n + 1) \div 2
         IN IF n % 2 = 1
            THEN Delete(prev, toQuery(buildRule(pType, oldRules[i])))
            ELSE Insert(prev, <<buildRule(pType, newRules[i])>>)

\* UpdatePolicies without the comparison of the lengths: it replaces as many
\* rules as both lists hold.
UpdatePoliciesMin(pType, oldRules, newRules, f) ==
    LET n == IF Len(oldRules) < Len(newRules) THEN Len(oldRules) ELSE Len(newRules)
        done == IF f = 0 THEN 2 * n ELSE f - 1
    IN
    /\ f \in 0..(2 * n)
    /\ table' = Transaction(table,
                            UpdateSteps(table, pType, oldRules, newRules, done),
                            f # 0)
    /\ Len(table') <= MaxRows
    /\ last' = [NoCall EXCEPT
                  !.op = "UpdatePolicies", !.pType = pType, !.rules = oldRules,
                  !.newRules = newRules, !.pre = table, !.txPre = table,
                  !.failed = f,
                  !.err = IF f = 0 THEN ""
                          ELSE IF f % 2 = 1 THEN "failed to delete old rule"
                          ELSE "failed to insert new rule"]
    /\ UNCHANGED <<model, isFiltered, call>>

\* Statement f of the transaction fails (0: none).
UpdatePolicies(pType, oldRules, newRules, f) ==
    LET n == Len(oldRules)
        mismatch == Len(oldRules) # Len(newRules)
        done == IF f = 0 THEN 2 * n ELSE f - 1
    IN
    /\ f \in 0..(IF mismatch THEN 0 ELSE 2 * n)
    /\ table' = IF mismatch \/ n = 0 THEN table
                ELSE Transaction(table,
                                 UpdateSteps(table, pType, oldRules, newRules, done),
                                 f # 0)
    /\ Len(table') <= MaxRows
    /\ last' = [NoCall EXCEPT
                  !.op = "UpdatePolicies", !.pType = pType, !.rules = oldRules,
                  !.newRules = newRules, !.pre = table, !.txPre = table,
                  !.failed = f,
                  !.err = IF mismatch
                          THEN "old rules and new rules have different length"
                          ELSE IF f = 0 THEN ""
                          ELSE IF f % 2 = 1 THEN "failed to delete old rule"
                          ELSE "failed to insert new rule"]
    /\ UNCHANGED <<model, isFiltered, call>>

\* UpdateFilteredPolicies to the end of its select.
UpdateFilteredScan(pType, newPolicies, fieldIndex, fieldValues, fail) ==
    LET query == FilterQuery(pType, fieldIndex, fieldValues) IN
    /\ call = Idle
    /\ IF fail \/ ~ValidQuery(query)
       THEN /\ last' = [NoCall EXCEPT
                          !.op = "UpdateFilteredPolicies", !.pType = pType,
                          !.newRules = newPolicies, !.fieldIndex = fieldIndex,
                          !.fieldValues = fieldValues, !.pre = table,
                          !.failed = 1, !.err = "failed to scan old rules"]
            /\ UNCHANGED call
       ELSE /\ \E oldRules \in Perms(Select(table, query)) :
                 call' = [Idle EXCEPT
                            !.op = "UpdateFilteredPolicies", !.pType = pType,
                            !.newRules = newPolicies, !.fieldIndex = fieldIndex,
                            !.fieldValues = fieldValues, !.pre = table,
                            !.scanned = oldRules,
                            !.res = [i \in 1..Len(oldRules) |-> toSlice(oldRules[i])]]
            /\ last' = NoCall
    /\ UNCHANGED <<table, model, isFiltered>>

\* UpdateFilteredPolicies' transaction: statement 1 deletes the rows of the
\* query, the next ones insert the batches; statement f fails (0: none).
UpdateFilteredTx(f) ==
    LET query == FilterQuery(call.pType, call.fieldIndex, call.fieldValues)
        dbRules == [i \in 1..Len(call.newRules) |->
                      buildRule(call.pType, call.newRules[i])]
        batches == Batches(dbRules)
        done == IF f = 0 THEN 1 + Len(batches) ELSE f - 1
        work == IF done = 0 THEN table
                ELSE InsertBatches(Delete(table, query), batches, done - 1)
    IN
    /\ call.op = "UpdateFilteredPolicies"
    /\ f \in 0..(1 + Len(batches))
    /\ table' = Transaction(table, work, f # 0)
    /\ Len(table') <= MaxRows
    /\ last' = [NoCall EXCEPT
                  !.op = "UpdateFilteredPolicies", !.pType = call.pType,
                  !.newRules = call.newRules, !.fieldIndex = call.fieldIndex,
                  !.fieldValues = call.fieldValues, !.pre = call.pre,
                  !.txPre = table, !.scanned = call.scanned,
                  !.deleted = IF done = 0 THEN <<>> ELSE Select(table, query),
                  !.failed = IF f = 0 THEN 0 ELSE f + 1,
                  !.err = IF f = 0 THEN ""
                          ELSE IF f = 1 THEN "failed to delete old rules"
                          ELSE "failed to insert new rules batch",
                  !.res = IF f = 0 THEN call.res ELSE <<>>,
                  !.resNil = (f # 0)]
    /\ call' = Idle
    /\ UNCHANGED <<model, isFiltered>>

----------------------------------------------------------------------------
(* One caller: every call returns before the next is made *)

\* The caller is about to make a call: none of its calls is in progress and it
\* has taken note of what the last one returned.
Ready == call = Idle /\ last = NoCall

\* The caller takes note of what its call returned.
Return ==
    /\ call = Idle
    /\ last # NoCall
    /\ last' = NoCall
    /\ UNCHANGED <<table, model, isFiltered, call>>

Next ==
    \/ Ready /\ \E k \in PTypes, r \in AddTuples, fail \in BOOLEAN :
                  AddPolicy(k, r, fail)
    \/ Ready /\ \E k \in PTypes, r \in Tuples, fail \in BOOLEAN :
                  RemovePolicy(k, r, fail)
    \/ Ready /\ \E k \in PTypes, rules \in RuleLists, f \in 0..MaxBatch :
                  AddPolicies(k, rules, f)
    \/ Ready /\ \E k \in PTypes, rules \in RemoveLists, f \in 0..MaxBatch :
                  RemovePolicies(k, rules, f)
    \/ Ready /\ \E k \in PTypes, i \in FieldIndexes, v \in FieldValueLists,
                     fail \in BOOLEAN :
                  RemoveFilteredPolicy(k, i, v, fail)
    \/ Ready /\ \E k \in PTypes, old \in Tuples, new \in AddTuples, f \in 0..2 :
                  UpdatePolicy(k, old, new, f)
    \/ Ready /\ \E k \in PTypes, old \in OldRuleLists, new \in RuleLists,
                     f \in 0..(2 * MaxBatch) :
                  UpdatePolicies(k, old, new, f)
    \/ Ready /\ \E k \in PTypes, new \in RuleLists, i \in FieldIndexes,
                     v \in FieldValueLists, fail \in BOOLEAN :
                  UpdateFilteredScan(k, new, i, v, fail)
    \/ call.op = "UpdateFilteredPolicies" /\ \E f \in 0..(1 + MaxBatch) :
                                            UpdateFilteredTx(f)
    \/ Ready /\ \E m \in SaveModels, fail \in BOOLEAN : SaveTruncate(m, fail)
    \/ call.op = "SavePolicy" /\ \E f \in 0..MaxRows : SaveInsert(f)
    \/ Return

Spec == Init /\ [][Next]_vars

----------------------------------------------------------------------------
(* Several callers: while one caller's UpdateFilteredPolicies is between   *)
(* its select and its transaction, another caller adds or removes a rule.  *)

NextConc ==
    \/ Ready /\ \E k \in PTypes, new \in RuleLists, v \in {<<"a">>, <<"", "b">>} :
                  UpdateFilteredScan(k, new, 0, v, FALSE)
    \/ call.op = "UpdateFilteredPolicies" /\ \E f \in 0..(1 + MaxBatch) :
                                            UpdateFilteredTx(f)
    \/ last = NoCall /\ \E k \in PTypes, r \in AddTuples : AddPolicy(k, r, FALSE)
    \/ last = NoCall /\ \E k \in PTypes, r \in AddTuples : RemovePolicy(k, r, FALSE)
    \/ Return

SpecConc == Init /\ [][NextConc]_vars

----------------------------------------------------------------------------
(* Loads from a table that holds rows when the adapter is constructed      *)

LoadTables ==
    SeqsUpTo({buildRule(k, r) : k \in PTypes, r \in Tuples}, MaxRows)

InitLoad ==
    /\ table \in LoadTables
    /\ model = EmptyModel
    /\ isFiltered = FALSE
    /\ call = Idle
    /\ last = NoCall

NextLoad ==
    \/ Ready /\ \E fail \in BOOLEAN : LoadPolicy(fail)
    \/ Ready /\ \E filter \in Filters \cup OtherFilters, fail \in BOOLEAN :
                  LoadFilteredPolicy(filter, fail)
    \/ Ready /\ ClearPolicy
    \/ Return

SpecLoad == InitLoad /\ [][NextLoad]_vars

----------------------------------------------------------------------------
(* Construction over a database that may hold the table's rows already     *)

InitNew ==
    /\ table \in LoadTables
    /\ model = EmptyModel
    /\ isFiltered = FALSE
    /\ call = Unbuilt
    /\ last = NoCall

NextNew ==
    \/ \E cfg \in Cfgs, found \in BOOLEAN, fail \in BOOLEAN :
          NewAdapter(cfg, found, fail)
    \/ Ready /\ \E fail \in BOOLEAN : LoadPolicy(fail)
    \/ Return

SpecNew == InitNew /\ [][NextNew]_vars

----------------------------------------------------------------------------
(* Readers while a SavePolicy is between its truncate and its transaction  *)

NextSave ==
    \/ Ready /\ \E m \in SaveModels : SaveTruncate(m, FALSE)
    \/ call.op = "SavePolicy" /\ \E f \in 0..MaxRows : SaveInsert(f)
    \/ call.op = "SavePolicy" /\ last = NoCall /\ LoadPolicy(FALSE)
    \/ call.op = "SavePolicy" /\ last = NoCall
          /\ LoadFilteredPolicy(NoFilter, FALSE)
    \/ Return

SpecSave == InitLoad /\ [][NextSave]_vars

----------------------------------------------------------------------------
(* Round trip of one tuple through an empty table *)

NextMap ==
    \/ table = <<>> /\ \E k \in PTypes, r \in AllTuples : AddPolicy(k, r, FALSE)
    \/ \E fail \in BOOLEAN : LoadPolicy(fail)
    \/ ClearPolicy

SpecMap == Init /\ [][NextMap]_vars

----------------------------------------------------------------------------
(* Calls whose model argument may be nil *)

\* The return of a call made with a nil model.
NilModelReturn(op) ==
    /\ last' = [NoCall EXCEPT !.op = op, !.nilModel = TRUE, !.pre = table,
                              !.modelPre = model,
                              !.err = "model cannot be nil"]
    /\ UNCHANGED <<table, model, isFiltered, call>>

\* SavePolicy without the check of its argument: a nil model has no rules,
\* so the table is truncated and nothing is inserted.
SavePolicyUnchecked(nilModel, m, fail) ==
    IF nilModel
    THEN /\ call = Idle
         /\ table' = IF fail THEN table ELSE truncateTable(table)
         /\ last' = [NoCall EXCEPT !.op = "SavePolicy", !.nilModel = TRUE,
                                   !.pre = table,
                                   !.failed = IF fail THEN 1 ELSE 0,
                                   !.err = IF fail THEN "failed to truncate table"
                                           ELSE ""]
         /\ UNCHANGED <<model, isFiltered, call>>
    ELSE SaveTruncate(m, fail)

\* SavePolicy(model) to the end of its truncate statement.
SavePolicy(nilModel, m, fail) ==
    IF nilModel THEN call = Idle /\ NilModelReturn("SavePolicy")
    ELSE SaveTruncate(m, fail)

\* LoadPolicy(model).
LoadPolicyInto(nilModel, fail) ==
    IF nilModel THEN NilModelReturn("LoadPolicy") ELSE LoadPolicy(fail)

\* LoadFilteredPolicy(model, filter).
LoadFilteredPolicyInto(nilModel, filter, fail) ==
    IF nilModel
    THEN /\ NilModelReturn("LoadFilteredPolicy")
    ELSE LoadFilteredPolicy(filter, fail)

NilSaveModels == {m \in SaveModels : Len(m["p"]) <= 1 /\ Len(m["g"]) = 0}

NextNil ==
    \/ Ready /\ \E nilModel \in BOOLEAN, fail \in BOOLEAN :
                  (nilModel => ~fail) /\ LoadPolicyInto(nilModel, fail)
    \/ Ready /\ \E nilModel \in BOOLEAN, fail \in BOOLEAN,
                    filter \in {NoFilter} \cup OtherFilters :
                  (nilModel => ~fail)
                  /\ LoadFilteredPolicyInto(nilModel, filter, fail)
    \/ Ready /\ \E nilModel \in BOOLEAN, fail \in BOOLEAN, m \in NilSaveModels :
                  (nilModel => ~fail /\ m = EmptyModel)
                  /\ SavePolicy(nilModel, m, fail)
    \/ call.op = "SavePolicy" /\ \E f \in 0..MaxRows : SaveInsert(f)
    \/ Return

SpecNil == InitLoad /\ [][NextNil]_vars

----------------------------------------------------------------------------
(* UpdateFilteredPolicies with an explicit Begin, Rollback and Commit *)

\* The rule the window of values is copied into; places outside v0..v5 and
\* outside the window stay "".
WindowRule(pType, fieldIndex, fieldValues) ==
    [PType |-> pType,
     V |-> [j \in 1..NumFields |->
              IF fieldIndex <= j - 1 /\ j - 1 < fieldIndex + Len(fieldValues)
              THEN fieldValues[j - fieldIndex] ELSE ""]]

\* toSlice of that revision: the kind, then the fields that are not "".
toSliceWithKind(c) ==
    (IF c.PType # "" THEN <<c.PType>> ELSE <<>>) \o SelectSeq(c.V, NonEmpty)

\* The loop over the new rules, all statements succeeding: scan, delete,
\* insert one new rule.
RECURSIVE ExplicitLoop(_, _, _, _)
ExplicitLoop(t, old, q, news) ==
    IF news = <<>> THEN [t |-> t, old |-> old]
    ELSE ExplicitLoop(Insert(Delete(t, q), <<Head(news)>>), Select(t, q),
                      q, Tail(news))

ExplicitIndexes == {-1, 0, 1}
ExplicitValues == {<<>>, <<"a">>, <<"", "b">>}

\* Statement f fails: -1 Begin, 0 none, 3i-2, 3i-1, 3i the scan, delete and
\* insert of new rule i, 3n+1 Commit; rb: the Rollback after it fails too.
UpdateFilteredPoliciesExplicit(pType, newPolicies, fieldIndex, fieldValues, f, rb) ==
    LET n == Len(newPolicies)
        rule == WindowRule(pType, fieldIndex, fieldValues)
        newRules == [i \in 1..n |-> buildRule(pType, newPolicies[i])]
        done == ExplicitLoop(table, <<>>, toQuery(rule), newRules)
        inLoop == f \in 1..(3 * n)
    IN
    /\ f \in -1..(3 * n + 1)
    /\ rb => inLoop
    /\ Len(done.t) <= MaxRows
    /\ table' = IF f = 0 THEN done.t ELSE table
    /\ last' = [NoCall EXCEPT
                  !.op = "UpdateFilteredPoliciesExplicit", !.pType = pType,
                  !.newRules = newPolicies, !.fieldIndex = fieldIndex,
                  !.fieldValues = fieldValues, !.pre = table,
                  !.failed = f,
                  !.rollback = IF ~inLoop THEN "" ELSE IF rb THEN "failed"
                               ELSE "done",
                  !.err = IF f = -1 THEN "panic"
                          ELSE IF inLoop THEN (IF rb THEN "rollback failed" ELSE "")
                          ELSE IF f = 0 THEN "" ELSE "commit failed",
                  !.res = IF f = 0
                          THEN [i \in 1..Len(done.old) |->
                                  toSliceWithKind(done.old[i])]
                          ELSE <<>>,
                  !.resNil = (f # 0)]
    /\ UNCHANGED <<model, isFiltered, call>>

NextExplicit ==
    \/ Ready /\ \E k \in PTypes, r \in AddTuples : AddPolicy(k, r, FALSE)
    \/ Ready /\ \E k \in PTypes, new \in RuleLists, i \in ExplicitIndexes,
                   v \in ExplicitValues, f \in -1..(3 * MaxBatch + 1),
                   rb \in BOOLEAN :
                   UpdateFilteredPoliciesExplicit(k, new, i, v, f, rb)
    \/ Return

SpecExplicit == Init /\ [][NextExplicit]_vars

----------------------------------------------------------------------------
(* UpdatePolicies with tuples that match no row of each other *)

SwapTuples == {<<"a">>, <<"b">>}
SwapLists == SeqsUpTo(SwapTuples, MaxBatch)
SwapTables ==
    SeqsUpTo({buildRule(k, r) : k \in PTypes, r \in SwapTuples}, MaxRows)

InitSwap ==
    /\ table \in SwapTables
    /\ model = EmptyModel
    /\ isFiltered = FALSE
    /\ call = Idle
    /\ last = NoCall

NextSwap ==
    \/ Ready /\ \E k \in PTypes, old \in SwapLists, new \in SwapLists,
                   f \in 0..(2 * MaxBatch) : UpdatePolicies(k, old, new, f)
    \/ Return

SpecSwap == InitSwap /\ [][NextSwap]_vars

----------------------------------------------------------------------------
(* Tuples of every length up to eight *)

BuildTuples ==
    {<<>>, <<"a">>, <<"", "b">>, <<"a", "", "b">>,
     <<"a", "b", "a", "b", "a">>,
     <<"a", "b", "a", "b", "a", "b">>,
     <<"a", "b", "a", "b", "a", "b", "a">>,
     <<"a", "b", "a", "b", "a", "b", "b", "a">>,
     <<"b", "", "", "", "", "", "a">>}

NextBuild ==
    \/ Ready /\ \E k \in PTypes, r \in BuildTuples, fail \in BOOLEAN :
                   AddPolicy(k, r, fail)
    \/ Return

SpecBuild == Init /\ [][NextBuild]_vars

----------------------------------------------------------------------------
(* Positional windows over all six fields *)

WindowTuples ==
    {<<"a">>, <<"a", "b">>, <<"", "", "", "", "", "a">>,
     <<"b", "", "", "", "b", "a">>}
WindowValues ==
    {<<>>, <<"a">>, <<"b">>, <<"a", "b">>, <<"", "b">>, <<"b", "a">>, <<"a", "">>}
WindowTables ==
    SeqsUpTo({buildRule(k, r) : k \in PTypes, r \in WindowTuples}, MaxRows)

InitWindow ==
    /\ table \in WindowTables
    /\ model = EmptyModel
    /\ isFiltered = FALSE
    /\ call = Idle
    /\ last = NoCall

NextWindow ==
    \/ Ready /\ \E k \in PTypes, i \in -1..NumFields, v \in WindowValues,
                     fail \in BOOLEAN :
                  RemoveFilteredPolicy(k, i, v, fail)
    \/ Return

SpecWindow == InitWindow /\ [][NextWindow]_vars

----------------------------------------------------------------------------
(* What the claims are stated with *)

\* A tuple without the empty fields after its last non-empty field.
RECURSIVE TrimTrailing(_)
TrimTrailing(t) ==
    IF Len(t) = 0 THEN t
    ELSE IF t[Len(t)] = "" THEN TrimTrailing(SubSeq(t, 1, Len(t) - 1))
    ELSE t

\* The six fields of the row of a tuple.
Pad(t) == [i \in 1..NumFields |-> IF i <= Len(t) THEN t[i] ELSE ""]

RowOf(k, t) == [PType |-> k, V |-> Pad(t)]

RowsOf(k, ts) == [i \in 1..Len(ts) |-> RowOf(k, ts[i])]

TuplesOf(rows) == [i \in 1..Len(rows) |-> TrimTrailing(rows[i].V)]

KindRows(t, k) == SelectSeq(t, LAMBDA r : r.PType = k)

\* A row matches a tuple: it is of the kind and equals the tuple in every
\* field the tuple gives a value for.
TupleMatches(k, t, row) ==
    /\ row.PType = k
    /\ \A i \in 1..Len(t) : (i <= NumFields /\ t[i] # "") => row.V[i] = t[i]

\* A row matches a tuple in every field the tuple supplies, the empty ones
\* too.
SuppliedMatches(k, t, row) ==
    /\ row.PType = k
    /\ \A i \in 1..Len(t) : i <= NumFields => row.V[i] = t[i]

\* The table after one RemovePolicy per tuple of a list.
RECURSIVE RemoveEach(_, _, _)
RemoveEach(t, k, ts) ==
    IF ts = <<>> THEN t
    ELSE RemoveEach(SelectSeq(t, LAMBDA r : ~TupleMatches(k, Head(ts), r)),
                    k, Tail(ts))

\* The table after one UpdatePolicy per pair of two lists.
RECURSIVE ReplaceEach(_, _, _, _)
ReplaceEach(t, k, olds, news) ==
    IF olds = <<>> THEN t
    ELSE ReplaceEach(SelectSeq(t, LAMBDA r : ~TupleMatches(k, Head(olds), r))
                       \o <<RowOf(k, Head(news))>>,
                     k, Tail(olds), Tail(news))

\* A row matches a positional filter: it is of the kind and its field
\* fieldIndex + j holds the j-th value, for every value given.
WindowMatches(k, fieldIndex, fieldValues, row) ==
    /\ row.PType = k
    /\ \A j \in 1..Len(fieldValues) :
          fieldValues[j] # "" => row.V[fieldIndex + j] = fieldValues[j]

\* A row passes a filter of sets of values.
PassesFilter(f, row) ==
    /\ f.PType # {} => row.PType \in f.PType
    /\ \A i \in 1..NumFields : f.V[i] # {} => row.V[i] \in f.V[i]

----------------------------------------------------------------------------
(* Claims *)

\* C1: a tuple added to an empty table and loaded into an empty model comes
\* back as exactly one tuple of its kind, the original without its trailing
\* empty fields.
RoundTrip ==
    [][(/\ last.op = "AddPolicy" /\ last.err = "" /\ last.pre = <<>>
        /\ model = EmptyModel
        /\ last'.op = "LoadPolicy" /\ last'.err = "")
       => model' = [EmptyModel EXCEPT
                      ![last.pType] = <<TrimTrailing(last.rules[1])>>]]_vars

\* C2: after a successful SavePolicy the rows of the table are the rules of
\* the model, one row per rule of every kind, whatever it held before.
SaveReplaces ==
    (last.op = "SavePolicy" /\ last.err = "")
    => /\ Len(table) = ModelSize(last.arg)
       /\ \A k \in PTypes : KindRows(table, k) = RowsOf(k, last.arg[k])

SaveReplacesWitness ==
    /\ last.op = "SavePolicy" /\ last.err = ""
    /\ table # <<>>
    /\ \E i \in 1..Len(last.pre) : Count(table, last.pre[i]) = 0

\* C3: a SavePolicy that returns an error leaves the table with the rows it
\* held before the call or with the complete new rule set.
SaveAllOrNothing ==
    (last.op = "SavePolicy" /\ last.err # "")
    => \/ table = last.pre
       \/ SameBag(table, RowsOf("p", last.arg["p"]) \o RowsOf("g", last.arg["g"]))

\* C4: a filtered load appends one tuple for every row that passes the
\* filter and none for any other row.
FilterLoadsMatching ==
    (last.op = "LoadFilteredPolicy" /\ last.err = "")
    => \A k \in PTypes :
          Len(model[k]) - Len(last.modelPre[k])
            = Cardinality({i \in 1..Len(last.pre) :
                             /\ last.pre[i].PType = k
                             /\ PassesFilter(last.filter, last.pre[i])})

\* C5: UpdatePolicies with lists of different lengths returns an error and
\* changes no row.
LengthMismatchRejected ==
    (last.op = "UpdatePolicies" /\ Len(last.rules) # Len(last.newRules))
    => last.err # "" /\ table = last.pre

LengthMismatchWitness ==
    /\ last.op = "UpdatePolicies"
    /\ Len(last.rules) > Len(last.newRules) /\ Len(last.newRules) > 0
    /\ \E i \in 1..Len(last.pre) :
          TupleMatches(last.pType, last.rules[1], last.pre[i])

\* C6: when a delete or an insert of UpdatePolicies fails, the call returns
\* an error and the table is as it was before the call.
UpdatePoliciesAtomic ==
    (last.op = "UpdatePolicies" /\ last.failed # 0)
    => last.err # "" /\ table = last.pre

\* The second pair fails after the first pair has replaced a row.
UpdatePoliciesAtomicWitness ==
    /\ last.op = "UpdatePolicies" /\ last.failed >= 3
    /\ RowOf(last.pType, last.rules[1]) # RowOf(last.pType, last.newRules[1])
    /\ \E i \in 1..Len(last.pre) :
          TupleMatches(last.pType, last.rules[1], last.pre[i])

\* C7: a successful UpdateFilteredPolicies returns the tuples of the rows
\* that matched the filter before the call, and leaves the rows that did
\* not match followed by one row per new rule.
UpdateFilteredReturnsOld ==
    (last.op = "UpdateFilteredPolicies" /\ last.err = "")
    => LET hit(r) == WindowMatches(last.pType, last.fieldIndex,
                                   last.fieldValues, r)
           matched == SelectSeq(last.pre, LAMBDA r : hit(r))
           rest == SelectSeq(last.pre, LAMBDA r : ~hit(r))
       IN /\ ~last.resNil
          /\ SameBag(last.res, TuplesOf(matched))
          /\ table = rest \o RowsOf(last.pType, last.newRules)

\* C8: the rows a successful UpdateFilteredPolicies returns are the rows it
\* deleted, also when other callers change the table meanwhile.
UpdateFilteredReturnsDeleted ==
    (last.op = "UpdateFilteredPolicies" /\ last.err = "")
    => SameBag(last.scanned, last.deleted)

\* C9: when the delete or an insert batch of UpdateFilteredPolicies fails,
\* the call returns an error and no list, and the table is as it was before
\* the call.
UpdateFilteredRollsBack ==
    (last.op = "UpdateFilteredPolicies" /\ last.failed >= 2)
    => last.err # "" /\ last.resNil /\ table = last.pre

\* An insert batch fails after the delete has removed rows.
UpdateFilteredRollsBackWitness ==
    /\ last.op = "UpdateFilteredPolicies" /\ last.failed = 3
    /\ last.scanned # <<>>
    /\ table = last.pre

RemoveDeletesSupplied ==
    (last.op = "RemovePolicy" /\ last.err = "")
    => table = SelectSeq(last.pre, LAMBDA r :
                           ~SuppliedMatches(last.pType, last.rules[1], r))

\* C12: a successful RemovePolicies deletes the rows that match one of its
\* tuples and no other; the table is the one a RemovePolicy per tuple leaves,
\* and an empty list changes nothing.
RemovePoliciesRemovesAny ==
    (last.op = "RemovePolicies" /\ last.err = "")
    => /\ table = SelectSeq(last.pre, LAMBDA r :
                      \A i \in 1..Len(last.rules) :
                         ~TupleMatches(last.pType, last.rules[i], r))
       /\ table = RemoveEach(last.pre, last.pType, last.rules)
       /\ last.rules = <<>> => table = last.pre

\* Two tuples each delete a row the other does not match.
RemovePoliciesWitness ==
    /\ last.op = "RemovePolicies" /\ last.err = "" /\ Len(last.rules) = 2
    /\ \E i, j \in 1..Len(last.pre) :
          /\ TupleMatches(last.pType, last.rules[1], last.pre[i])
          /\ ~TupleMatches(last.pType, last.rules[2], last.pre[i])
          /\ TupleMatches(last.pType, last.rules[2], last.pre[j])
          /\ ~TupleMatches(last.pType, last.rules[1], last.pre[j])

\* C13: RemoveFilteredPolicy deletes the rows of the kind that hold the
\* values of the window in the fields from fieldIndex on, and no other row;
\* it does so for every fieldIndex of 0..5 and every window within the six
\* fields; a call that returns an error deletes nothing.
WindowRemoves ==
    last.op = "RemoveFilteredPolicy"
    => /\ last.err = ""
            => table = SelectSeq(last.pre, LAMBDA r :
                         ~WindowMatches(last.pType, last.fieldIndex,
                                        last.fieldValues, r))
       /\ last.err # "" => table = last.pre
       /\ (/\ last.fieldIndex \in 0..(NumFields - 1)
           /\ last.fieldIndex + Len(last.fieldValues) <= NumFields
           /\ last.failed = 0) => last.err = ""

\* A window at v4 deletes a row and leaves one that differs in v4 only.
WindowRemovesWitness ==
    /\ last.op = "RemoveFilteredPolicy" /\ last.err = ""
    /\ last.fieldIndex = 4 /\ last.fieldValues = <<"b", "a">>
    /\ Len(last.pre) = 2 /\ Len(table) = 1
    /\ table[1].PType = last.pType /\ table[1].V[6] = "a"

\* C14: a successful UpdatePolicy on a table that holds one row equal to
\* oldRule leaves the other rows as they were and the row of newRule in its
\* place.
UpdateReplacesOne ==
    (last.op = "UpdatePolicy" /\ last.err = "")
    => LET old == RowOf(last.pType, last.rules[1])
           new == RowOf(last.pType, last.newRules[1])
       IN Count(last.pre, old) = 1
          => SameBag(table, SelectSeq(last.pre, LAMBDA r : r # old) \o <<new>>)

\* C15: an UpdatePolicy whose oldRule matches no row, and none of whose
\* statements fails, returns no error and leaves the table as it was.
UpdateAbsentIsNoOp ==
    (/\ last.op = "UpdatePolicy" /\ last.failed = 0
     /\ \A i \in 1..Len(last.pre) :
           ~TupleMatches(last.pType, last.rules[1], last.pre[i]))
    => last.err = "" /\ table = last.pre

\* C16: a successful LoadPolicy leaves, for every kind, the tuples the model
\* held followed by the tuples of the rows of the kind in the order of the
\* table, one per row.
LoadAppendsInOrder ==
    (last.op = "LoadPolicy" /\ last.err = "")
    => \A k \in PTypes :
          model[k] = last.modelPre[k] \o TuplesOf(KindRows(last.pre, k))

\* C17: IsFiltered is false after construction, true after a successful
\* LoadFilteredPolicy and false after a successful LoadPolicy.
FilteredFlagFollowsLoad ==
    /\ (last.op = "LoadFilteredPolicy" /\ last.err = "") => IsFiltered
    /\ (last.op = "LoadPolicy" /\ last.err = "") => ~IsFiltered

\* C18: a LoadFilteredPolicy handed a value that is not a Filter returns an
\* error; no statement runs, the model holds the tuples it held and the
\* filtered flag keeps its value.
BadFilterRejected ==
    [][(last'.op = "LoadFilteredPolicy" /\ last'.filter.type # "Filter")
       => /\ last'.err # "" /\ last'.failed = 0
          /\ model' = model /\ isFiltered' = isFiltered
          /\ table' = table]_vars

\* A pointer to a filter that would select a row, handed over while the
\* flag is set and the model is empty.
BadFilterWitness ==
    /\ last.op = "LoadFilteredPolicy" /\ last.filter.type = "*Filter"
    /\ last.filter.PType = {"p"}
    /\ \E i \in 1..Len(table) : table[i].PType = "p" /\ table[i].V[1] = "a"
    /\ model = EmptyModel /\ IsFiltered

\* C19: the tuple loaded for a row holds the fields of the row in their
\* places up to the last non-empty one: empty fields before it are kept.
FieldOrderKept ==
    (/\ last.op = "LoadPolicy" /\ last.err = "" /\ last.modelPre = EmptyModel
     /\ Len(last.pre) = 1 /\ TrimTrailing(last.pre[1].V) # <<>>)
    => LET row == last.pre[1]
           n == Len(TrimTrailing(row.V))
           loaded == model[row.PType]
       IN /\ Len(loaded) = 1
          /\ Len(loaded[1]) = n
          /\ \A i \in 1..n : loaded[1][i] = row.V[i]

\* C20: a successful AddPolicies leaves the table it found followed by one
\* row per tuple, in the order of the list, equal tuples included; one that
\* returns an error leaves the table it found; an empty list changes nothing.
AddPoliciesAllOrNothing ==
    last.op = "AddPolicies"
    => /\ last.err = "" => table = last.pre \o RowsOf(last.pType, last.rules)
       /\ last.err # "" => table = last.pre
       /\ last.failed # 0 => last.err # ""
       /\ last.rules = <<>> => last.err = "" /\ table = last.pre

\* The second batch fails after the first one was inserted.
AddPoliciesWitness ==
    /\ last.op = "AddPolicies" /\ last.failed = 2
    /\ Len(last.rules) >= 2 /\ table = last.pre

\* C21: NewAdapter handed a nil context, or no database handle and an empty
\* connection group, returns an error and no adapter and sends no statement:
\* the table is not created.
ConstructionFailsFast ==
    (/\ last.op = "NewAdapter"
     /\ \/ last.cfg.ctx = "nil"
        \/ last.cfg.db = "nil" /\ last.cfg.dbGroupName = "")
    => /\ last.err # "" /\ last.resNil /\ last.adp = NoCfg
       /\ last.stmts = 0
       /\ call = Unbuilt /\ table = last.pre

\* A context but neither a handle nor a connection group.
ConstructionFailsFastWitness ==
    /\ last.op = "NewAdapter" /\ last.cfg.ctx = "ctx"
    /\ last.cfg.db = "nil" /\ last.cfg.dbGroupName = ""
    /\ last.err # ""

\* C22: a load that runs while a SavePolicy is in progress reads the rows the
\* table held before the save or the rows of the saved model, never another
\* table.
SaveHidesIntermediate ==
    (/\ call.op = "SavePolicy"
     /\ last.op \in {"LoadPolicy", "LoadFilteredPolicy"} /\ last.err = "")
    => \/ last.pre = call.pre
       \/ last.pre = RulesOf(call.arg)

\* C23: in every operation that matches rows by a tuple or by a window of
\* values, an empty value constrains no field: the rows a successful call
\* deletes are the rows of the kind that hold its non-empty values in their
\* places.
EmptyValuesUnconstrained ==
    LET window(r) == WindowMatches(last.pType, last.fieldIndex,
                                   last.fieldValues, r)
        kept == SelectSeq(last.pre, LAMBDA r : ~window(r))
    IN
    last.err = "" =>
      /\ last.op = "RemovePolicy"
            => table = RemoveEach(last.pre, last.pType, last.rules)
      /\ last.op = "RemovePolicies"
            => table = RemoveEach(last.pre, last.pType, last.rules)
      /\ last.op = "RemoveFilteredPolicy" => table = kept
      /\ last.op \in {"UpdatePolicy", "UpdatePolicies"}
            => table = ReplaceEach(last.pre, last.pType, last.rules,
                                   last.newRules)
      /\ last.op = "UpdateFilteredPolicies"
            => table = kept \o RowsOf(last.pType, last.newRules)

\* A call with an empty value has deleted a row that holds a value there.
EmptyValuesWitness ==
    /\ last.err = "" /\ table = <<>>
    /\ \E i \in 1..Len(last.pre) : last.pre[i].V[1] = "a"
    /\ \/ last.op \in {"RemovePolicy", "RemovePolicies", "UpdatePolicies"}
             /\ last.rules = <<<<"", "b">>>>
       \/ last.op \in {"RemoveFilteredPolicy", "UpdateFilteredPolicies"}
             /\ last.fieldValues = <<"", "b">>

\* C24: the row built from a tuple has the rule kind as p_type, the tuple's
\* element i in v_i for every i below the tuple's length and below six, ""
\* in the other fields; elements from position six on are dropped, which is
\* no error, so tuples that agree on their first six elements give the same
\* row.
TupleToRow ==
    last.op = "AddPolicy" =>
      LET t == last.rules[1]
          row == table[Len(table)]
      IN
      /\ last.err = "" <=> last.failed = 0
      /\ last.err = "" =>
            /\ Len(table) = Len(last.pre) + 1
            /\ SubSeq(table, 1, Len(last.pre)) = last.pre
            /\ row.PType = last.pType
            /\ \A i \in 0..(NumFields - 1) :
                  row.V[i + 1] = IF i < Len(t) THEN t[i + 1] ELSE ""
            /\ \A u \in BuildTuples :
                  (\A i \in 1..NumFields :
                      /\ i <= Len(u) <=> i <= Len(t)
                      /\ i <= Len(u) => u[i] = t[i])
                  => buildRule(last.pType, u) = row

\* A tuple of more than six elements has been added.
TupleToRowWitness ==
    /\ last.op = "AddPolicy" /\ last.err = ""
    /\ Len(last.rules[1]) > NumFields
    /\ last.rules[1][NumFields + 1] # ""

\* The batches of a list, one after the other.
RECURSIVE Concat(_)
Concat(batches) ==
    IF batches = <<>> THEN <<>> ELSE Head(batches) \o Concat(Tail(batches))

\* The rows the insert batches of the last call are cut from.
BatchedRows ==
    IF last.op = "AddPolicies" THEN RowsOf(last.pType, last.rules)
    ELSE IF last.op = "SavePolicy" THEN RulesOf(last.arg)
    ELSE IF last.op = "UpdateFilteredPolicies"
         THEN RowsOf(last.pType, last.newRules)
    ELSE <<>>

ErrorsNotSwallowed ==
    (/\ last.op = "UpdateFilteredPoliciesExplicit"
     /\ last.failed \in 1..(3 * Len(last.newRules)))
    => /\ last.err # ""
       /\ last.resNil
       /\ table = last.pre

\* C27: after a successful UpdatePolicies with lists of equal length, on a
\* table where the old tuples are pairwise distinct and each matches exactly
\* one row, the table holds a row for every new tuple and as many rows as
\* before, also when a tuple is in both lists.
UpdatePoliciesKeepsNewRows ==
    LET old == last.rules
        new == last.newRules
        matching(r) == {i \in 1..Len(last.pre) :
                          TupleMatches(last.pType, r, last.pre[i])}
    IN
    (/\ last.op = "UpdatePolicies" /\ last.err = ""
     /\ Len(old) = Len(new)
     /\ \A i, j \in 1..Len(old) : i # j => old[i] # old[j]
     /\ \A i \in 1..Len(old) : Cardinality(matching(old[i])) = 1)
    => /\ Len(table) = Len(last.pre)
       /\ \A i \in 1..Len(new) :
             \E j \in 1..Len(table) : table[j] = RowOf(last.pType, new[i])

\* C28: AddPolicy, AddPolicies, RemovePolicy, RemovePolicies,
\* RemoveFilteredPolicy, UpdatePolicy, UpdatePolicies and
\* UpdateFilteredPolicies called with a rule kind leave the rows of every
\* other kind as they were, in their order, whether the call succeeds or
\* fails.
OtherKindsUnchanged ==
    last.op \in {"AddPolicy", "AddPolicies", "RemovePolicy", "RemovePolicies",
                 "RemoveFilteredPolicy", "UpdatePolicy", "UpdatePolicies",
                 "UpdateFilteredPolicies"}
    => \A k \in PTypes \ {last.pType} :
         KindRows(table, k) = KindRows(last.pre, k)

\* A call has deleted a row while a row of another kind with the same
\* values stays.
OtherKindsWitness ==
    /\ last.op \in {"RemovePolicy", "RemovePolicies", "RemoveFilteredPolicy",
                     "UpdatePolicy", "UpdatePolicies", "UpdateFilteredPolicies"}
    /\ last.err = ""
    /\ \E i, j \in 1..Len(last.pre) :
          /\ last.pre[i].PType = last.pType
          /\ last.pre[j].PType # last.pType
          /\ last.pre[i].V = last.pre[j].V
          /\ table = <<last.pre[j]>>

\* C29: SavePolicy, LoadPolicy and LoadFilteredPolicy called with a nil
\* model return an error and do nothing else: the table is not truncated or
\* changed, the filtered flag and the engine's model keep their values.
NilModelRejected ==
    [][(last' # last /\ last'.nilModel)
       => /\ last'.op \in {"SavePolicy", "LoadPolicy", "LoadFilteredPolicy"}
          /\ last'.err = "model cannot be nil"
          /\ table' = table
          /\ isFiltered' = isFiltered
          /\ model' = model
          /\ call' = Idle]_vars

\* SavePolicy with a nil model has returned over a table that holds rows,
\* after a filtered load.
NilModelWitness ==
    /\ last.nilModel /\ last.op = "SavePolicy" /\ last.err # ""
    /\ table # <<>> /\ isFiltered

====
